---- MODULE Spec2Model ----
(***************************************************************************)
(* Model of DPG/Tasks/qaK0sTrackingEfficiency.cxx: the analysis task       *)
(* qaK0sTrackingEfficiency (init, acceptV0, process) and the histogram     *)
(* registry it fills.                                                      *)
(*                                                                         *)
(* Floating-point values that the code compares are records                *)
(* [nan, val]: val is the value in fixed-point units (1/1000 for the       *)
(* pointing-angle cosine and the rapidity, 1 for the TPC n-sigma), nan     *)
(* marks an IEEE-754 NaN.  Comparisons follow IEEE-754: every ordered      *)
(* comparison with a NaN operand is false.                                 *)
(***************************************************************************)
EXTENDS Integers, Sequences, FiniteSets, Bags, TLC

VARIABLES
  eventSelection,  \* Configurable<bool> eventSelection
  registry,        \* HistogramRegistry registry: name -> [dim, entries]
  nEvents,         \* number of process() calls made so far
  nSelected,       \* number of those whose collision passed the event selection
  nAccepted,       \* number of V0s of those collisions for which acceptV0 held
  lastEvent,       \* the (collision, fullV0s) of the latest process() call
  cand,            \* SpecV0: the V0 candidate handed to the loop body
  ret,             \* SpecV0: what acceptV0 returned for cand
  pc,              \* SpecV0: "idle" before the call, "done" after
  batch0,          \* SpecPar: the batch of events handed to the host
  queue,           \* SpecPar: events of the batch not yet taken by a worker
  wk               \* SpecPar: per worker, the fills of its event still to issue

vars == <<eventSelection, registry, nEvents, nSelected, nAccepted, lastEvent,
          cand, ret, pc, batch0, queue, wk>>

(***************************************************************************)
(* Bounds of the model.                                                    *)
(***************************************************************************)
MaxEvents == 2   \* process() calls in Spec
MaxV0s == 2      \* V0 candidates per collision in Spec
MaxBatch == 2    \* events per batch in SpecPar

(***************************************************************************)
(* Floating point.                                                         *)
(***************************************************************************)
F(v) == [nan |-> FALSE, val |-> v]
NaN == [nan |-> TRUE, val |-> 0]

\* a < b, a > b on float/double operands
FLess(a, b) == ~a.nan /\ ~b.nan /\ a.val < b.val
FGreater(a, b) == ~a.nan /\ ~b.nan /\ a.val > b.val
\* the spec's ">=" and "<=" read as IEEE comparisons
FGeq(a, b) == ~a.nan /\ ~b.nan /\ a.val >= b.val
FLeq(a, b) == ~a.nan /\ ~b.nan /\ a.val =< b.val

\* TMath::Abs
TMathAbs(a) == IF a.nan THEN a ELSE F(IF a.val < 0 THEN -a.val ELSE a.val)

(***************************************************************************)
(* Configurables (defaults).                                               *)
(***************************************************************************)
v0cospa == 995    \* 0.995, in 1/1000
rapidity == 500   \* 0.5, in 1/1000
nSigTPC == 10     \* 10.

(***************************************************************************)
(* init(): the histograms added to the registry.                           *)
(***************************************************************************)
Hist(dim) == [dim |-> dim, entries |-> EmptyBag]

RegistryAdd(reg, name, dim) == reg @@ (name :> Hist(dim))

TestHistNames ==
  {"Test/h_R", "Test/h_pT", "Test/h_mass",
   "Test/h_negITSStatus", "Test/h_posITSStatus",
   "Test/h_negIBStatus", "Test/h_posIBStatus",
   "Test/h_negIBhits", "Test/h_posIBhits"}

SparseHistNames == {"h5_RpTmassITSStatus", "h5_RpTmassIBStatus"}

RECURSIVE AddAll(_, _, _)
AddAll(reg, names, dim) ==
  IF names = {} THEN reg
  ELSE LET n == CHOOSE x \in names : TRUE
       IN AddAll(RegistryAdd(reg, n, dim), names \ {n}, dim)

init ==
  AddAll(AddAll(RegistryAdd(<< >>, "h_EventCounter", 1),
                SparseHistNames, 5),
         TestHistNames, 1)

\* bin labels of h_EventCounter: SetBinLabel(1, "Total"), SetBinLabel(2, "Selected")
EventCounterLabels == <<"Total", "Selected">>

\* bin of value x on the axis {2, -0.5, 1.5}
FindBin(x) == x + 1

(***************************************************************************)
(* registry.fill(HIST(name), x...): one more entry at coordinates x.       *)
(***************************************************************************)
\* the entry replacing the contents instead of adding to them
FillOverwrite(reg, name, x) ==
  [reg EXCEPT ![name].entries = SetToBag({x})]

Fill(reg, name, x) ==
  [reg EXCEPT ![name].entries = @ (+) SetToBag({x})]

RECURSIVE ApplyFills(_, _)
ApplyFills(reg, fills) ==
  IF fills = << >> THEN reg
  ELSE ApplyFills(Fill(reg, Head(fills).name, Head(fills).x), Tail(fills))

Entries(reg, name) == BagCardinality(reg[name].entries)

\* content of the bin of h_EventCounter labelled label
RECURSIVE BinOfLabel(_, _)
BinOfLabel(label, b) ==
  IF EventCounterLabels[b] = label THEN b ELSE BinOfLabel(label, b + 1)

BinContent(reg, label) ==
  LET b == BinOfLabel(label, 1)
      h == reg["h_EventCounter"].entries
      xs == {x \in BagToSet(h) : FindBin(x[1]) = b}
  IN IF xs = {} THEN 0 ELSE CopiesIn(CHOOSE x \in xs : TRUE, h)

(***************************************************************************)
(* Inputs: rows of the collision, V0 and track tables.                     *)
(*   collision: [sel8]                                                     *)
(*   track:     [hasTPC, hasITS, tpcNSigmaPi, itsClusterMap]               *)
(*   v0:        [v0cosPA, yK0Short, v0radius, pt, mK0Short,                *)
(*               posTrack, negTrack]                                       *)
(* v0.v0cosPA is the value v0.v0cosPA(posX, posY, posZ) takes for the      *)
(* collision the V0 belongs to.                                            *)
(***************************************************************************)
Collisions == [sel8 : BOOLEAN]

Track(tpc, its, nsig, map) ==
  [hasTPC |-> tpc, hasITS |-> its, tpcNSigmaPi |-> nsig, itsClusterMap |-> map]

V0(cpa, y, r, pt, m, pos, neg) ==
  [v0cosPA |-> cpa, yK0Short |-> y, v0radius |-> r, pt |-> pt, mK0Short |-> m,
   posTrack |-> pos, negTrack |-> neg]

\* the candidates of SpecV0: every combination of the fields acceptV0 and the
\* classification read, at, next to and far from the thresholds
CosPAValues == {F(994), F(995), NaN}
RapidityValues == {F(-501), F(-500), F(501), NaN}
NSigmaValues == {F(-1000), F(10), F(11), NaN}
ClusterMaps == {0, 3, 8, 127}

Tracks ==
  {Track(tpc, its, nsig, map) :
     tpc \in BOOLEAN, its \in BOOLEAN, nsig \in NSigmaValues, map \in ClusterMaps}

Candidates ==
  {V0(cpa, y, 5, 2, 497, pos, neg) :
     cpa \in CosPAValues, y \in RapidityValues, pos \in Tracks, neg \in Tracks}

\* the candidates of Spec and SpecPar
trkInner == Track(TRUE, TRUE, F(10), 3)
trkOuter == Track(TRUE, FALSE, F(-1000), 8)
v0NegInner == V0(F(995), F(500), 1, 2, 497, trkOuter, trkInner)
v0PosInner == V0(F(999), F(-100), 3, 4, 498, trkInner, trkOuter)
v0LowCosPA == V0(F(994), F(0), 1, 2, 497, trkInner, trkInner)

SomeV0s == {v0NegInner, v0PosInner, v0LowCosPA}

SeqsUpTo(S, n) == UNION {[1..k -> S] : k \in 0..n}

(***************************************************************************)
(* acceptV0                                                                *)
(***************************************************************************)
v0cosPA(v0, collision) == v0.v0cosPA

acceptV0(v0, ptrack, ntrack, collision) ==
  IF FLess(v0cosPA(v0, collision), F(v0cospa)) THEN FALSE
  ELSE IF FGreater(TMathAbs(v0.yK0Short), F(rapidity)) THEN FALSE
  ELSE IF ~ptrack.hasTPC \/ ~ntrack.hasTPC THEN FALSE
  ELSE IF FGreater(ptrack.tpcNSigmaPi, F(nSigTPC))
          \/ FGreater(ntrack.tpcNSigmaPi, F(nSigTPC)) THEN FALSE
  ELSE TRUE

(***************************************************************************)
(* process(): the fills it issues, in order.                               *)
(***************************************************************************)
\* bool -> double, as registry.fill converts its arguments
BoolToDouble(b) == IF b THEN 1 ELSE 0

\* clusterMap & (1 << i)
BitAndShift(clusterMap, i) == ((clusterMap \div (2 ^ i)) % 2) * (2 ^ i)

RECURSIVE IBNhitsLoop4(_, _)
IBNhitsLoop4(clusterMap, i) ==
  IF i < 4
    THEN (IF BitAndShift(clusterMap, i) # 0 THEN 1 ELSE 0)
         + IBNhitsLoop4(clusterMap, i + 1)
    ELSE 0

\* for (unsigned int i = 0; i < 3; i++) if (clusterMap & (1 << i)) nhits++
RECURSIVE IBNhitsLoop(_, _)
IBNhitsLoop(clusterMap, i) ==
  IF i < 3
    THEN (IF BitAndShift(clusterMap, i) # 0 THEN 1 ELSE 0)
         + IBNhitsLoop(clusterMap, i + 1)
    ELSE 0

IBNhitsOffByOne(clusterMap) == IBNhitsLoop4(clusterMap, 0)

IBNhits(clusterMap) == IBNhitsLoop(clusterMap, 0)

FillOf(name, x) == [name |-> name, x |-> x]

\* the body of "if (acceptV0(...))", with posHasITS read from the positive track
V0FillsOwnITS(v0, recopostrack, reconegtrack) ==
  LET negHasITS == reconegtrack.hasITS
      posHasITS == recopostrack.hasITS
      negIBNhits == IBNhits(reconegtrack.itsClusterMap)
      posIBNhits == IBNhits(recopostrack.itsClusterMap)
      negHasIB == negIBNhits # 0
      posHasIB == posIBNhits # 0
  IN << FillOf("Test/h_R", <<v0.v0radius>>),
        FillOf("Test/h_pT", <<v0.pt>>),
        FillOf("Test/h_mass", <<v0.mK0Short>>),
        FillOf("Test/h_negITSStatus", <<BoolToDouble(negHasITS)>>),
        FillOf("Test/h_posITSStatus", <<BoolToDouble(posHasITS)>>),
        FillOf("h5_RpTmassITSStatus",
               <<v0.v0radius, v0.pt, v0.mK0Short,
                 BoolToDouble(negHasITS), BoolToDouble(posHasITS)>>),
        FillOf("Test/h_negIBStatus", <<BoolToDouble(negHasIB)>>),
        FillOf("Test/h_posIBStatus", <<BoolToDouble(posHasIB)>>),
        FillOf("Test/h_negIBhits", <<negIBNhits>>),
        FillOf("Test/h_posIBhits", <<posIBNhits>>),
        FillOf("h5_RpTmassIBStatus",
               <<v0.v0radius, v0.pt, v0.mK0Short,
                 BoolToDouble(negHasIB), BoolToDouble(posHasIB)>>) >>

\* the body of "if (acceptV0(...))"
V0Fills(v0, recopostrack, reconegtrack) ==
  LET negHasITS == reconegtrack.hasITS
      posHasITS == reconegtrack.hasITS
      negIBNhits == IBNhits(reconegtrack.itsClusterMap)
      posIBNhits == IBNhits(recopostrack.itsClusterMap)
      negHasIB == negIBNhits # 0
      posHasIB == posIBNhits # 0
  IN << FillOf("Test/h_R", <<v0.v0radius>>),
        FillOf("Test/h_pT", <<v0.pt>>),
        FillOf("Test/h_mass", <<v0.mK0Short>>),
        FillOf("Test/h_negITSStatus", <<BoolToDouble(negHasITS)>>),
        FillOf("Test/h_posITSStatus", <<BoolToDouble(posHasITS)>>),
        FillOf("h5_RpTmassITSStatus",
               <<v0.v0radius, v0.pt, v0.mK0Short,
                 BoolToDouble(negHasITS), BoolToDouble(posHasITS)>>),
        FillOf("Test/h_negIBStatus", <<BoolToDouble(negHasIB)>>),
        FillOf("Test/h_posIBStatus", <<BoolToDouble(posHasIB)>>),
        FillOf("Test/h_negIBhits", <<negIBNhits>>),
        FillOf("Test/h_posIBhits", <<posIBNhits>>),
        FillOf("h5_RpTmassIBStatus",
               <<v0.v0radius, v0.pt, v0.mK0Short,
                 BoolToDouble(negHasIB), BoolToDouble(posHasIB)>>) >>

\* one iteration of the loop over fullV0s, filling the 5D histograms
\* whatever acceptV0 returns
LoopBodyFillsUnguarded(v0, collision) ==
  LET recopostrack == v0.posTrack
      reconegtrack == v0.negTrack
      all == V0Fills(v0, recopostrack, reconegtrack)
  IN IF acceptV0(v0, recopostrack, reconegtrack, collision)
       THEN all
       ELSE SelectSeq(all, LAMBDA f : f.name \in SparseHistNames)

\* one iteration of the loop over fullV0s
LoopBodyFills(v0, collision) ==
  LET recopostrack == v0.posTrack
      reconegtrack == v0.negTrack
  IN IF acceptV0(v0, recopostrack, reconegtrack, collision)
       THEN V0Fills(v0, recopostrack, reconegtrack)
       ELSE << >>

RECURSIVE V0LoopFills(_, _)
V0LoopFills(fullV0s, collision) ==
  IF fullV0s = << >> THEN << >>
  ELSE LoopBodyFills(Head(fullV0s), collision)
       \o V0LoopFills(Tail(fullV0s), collision)

\* the early return dropped, the configurable ignored
EventNeverRejected(evSel, collision) == FALSE
EventRejectedAlways(evSel, collision) == ~collision.sel8

\* if (eventSelection && !collision.sel8()) return;
EventRejected(evSel, collision) == evSel /\ ~collision.sel8

ProcessFillsDoubleTotal(collision, fullV0s) ==
  << FillOf("h_EventCounter", <<0>>) >>
  \o IF EventRejected(eventSelection, collision)
       THEN << FillOf("h_EventCounter", <<0>>) >>
       ELSE << FillOf("h_EventCounter", <<1>>) >>
            \o V0LoopFills(fullV0s, collision)

ProcessFillsTypo(collision, fullV0s) ==
  << FillOf("h_EventCounter", <<0>>) >>
  \o IF EventRejected(eventSelection, collision)
       THEN << >>
       ELSE << FillOf("h_EventCounters", <<1>>) >>
            \o V0LoopFills(fullV0s, collision)

ProcessFills(collision, fullV0s) ==
  << FillOf("h_EventCounter", <<0>>) >>
  \o IF EventRejected(eventSelection, collision)
       THEN << >>
       ELSE << FillOf("h_EventCounter", <<1>>) >>
            \o V0LoopFills(fullV0s, collision)

RECURSIVE NumAccepted(_, _)
NumAccepted(fullV0s, collision) ==
  IF fullV0s = << >> THEN 0
  ELSE (IF acceptV0(Head(fullV0s), Head(fullV0s).posTrack,
                    Head(fullV0s).negTrack, collision) THEN 1 ELSE 0)
       + NumAccepted(Tail(fullV0s), collision)

(***************************************************************************)
(* Spec: the host calls process() once per collision, one call at a time.  *)
(***************************************************************************)
Workers == {"w1", "w2"}

NoEvent == [collision |-> [sel8 |-> FALSE], fullV0s |-> << >>]

IdleV0 ==
  /\ cand = v0LowCosPA
  /\ ret = FALSE
  /\ pc = "idle"

IdlePar ==
  /\ batch0 = << >>
  /\ queue = << >>
  /\ wk = [w \in Workers |-> << >>]

Init ==
  /\ eventSelection \in BOOLEAN
  /\ registry = init
  /\ nEvents = 0
  /\ nSelected = 0
  /\ nAccepted = 0
  /\ lastEvent = NoEvent
  /\ IdleV0
  /\ IdlePar

process(collision, fullV0s) ==
  /\ nEvents < MaxEvents
  /\ registry' = ApplyFills(registry, ProcessFills(collision, fullV0s))
  /\ nEvents' = nEvents + 1
  /\ nSelected' = nSelected + (IF eventSelection /\ ~collision.sel8 THEN 0 ELSE 1)
  /\ nAccepted' = nAccepted + (IF eventSelection /\ ~collision.sel8 THEN 0
                               ELSE NumAccepted(fullV0s, collision))
  /\ lastEvent' = [collision |-> collision, fullV0s |-> fullV0s]
  /\ UNCHANGED <<eventSelection, cand, ret, pc, batch0, queue, wk>>

Next ==
  \E collision \in Collisions, fullV0s \in SeqsUpTo(SomeV0s, MaxV0s) :
    process(collision, fullV0s)

Spec == Init /\ [][Next]_vars

(***************************************************************************)
(* SpecV0: process() on a selected collision holding one candidate drawn   *)
(* from Candidates; ret is what acceptV0 returns for it.                   *)
(***************************************************************************)
InitV0 ==
  /\ eventSelection = TRUE
  /\ registry = init
  /\ nEvents = 0
  /\ nSelected = 0
  /\ nAccepted = 0
  /\ lastEvent = NoEvent
  /\ cand \in Candidates
  /\ ret = FALSE
  /\ pc = "idle"
  /\ IdlePar

processCandidate ==
  LET collision == [sel8 |-> TRUE] IN
  /\ pc = "idle"
  /\ ret' = acceptV0(cand, cand.posTrack, cand.negTrack, collision)
  /\ registry' = ApplyFills(registry, ProcessFills(collision, <<cand>>))
  /\ nEvents' = nEvents + 1
  /\ nSelected' = nSelected + 1
  /\ nAccepted' = nAccepted + NumAccepted(<<cand>>, collision)
  /\ lastEvent' = [collision |-> collision, fullV0s |-> <<cand>>]
  /\ pc' = "done"
  /\ UNCHANGED <<eventSelection, cand, batch0, queue, wk>>

NextV0 == processCandidate

SpecV0 == InitV0 /\ [][NextV0]_vars

(***************************************************************************)
(* SpecPar: the host hands a batch of events to two workers.  A worker     *)
(* takes any event not yet taken and issues the fills of process() for it  *)
(* one at a time; each fill is atomic.                                     *)
(***************************************************************************)
ParEvents ==
  {[collision |-> c, fullV0s |-> vs] :
     c \in Collisions, vs \in SeqsUpTo({v0NegInner, v0LowCosPA}, 1)}

Batches == UNION {[1..k -> ParEvents] : k \in 1..MaxBatch}

RemoveAt(s, i) == SubSeq(s, 1, i - 1) \o SubSeq(s, i + 1, Len(s))

InitPar ==
  /\ eventSelection \in BOOLEAN
  /\ registry = init
  /\ nEvents = 0
  /\ nSelected = 0
  /\ nAccepted = 0
  /\ lastEvent = NoEvent
  /\ IdleV0
  /\ batch0 \in Batches
  /\ queue = batch0
  /\ wk = [w \in Workers |-> << >>]

Take(w, i) ==
  /\ wk[w] = << >>
  /\ i \in 1..Len(queue)
  /\ wk' = [wk EXCEPT ![w] = ProcessFills(queue[i].collision, queue[i].fullV0s)]
  /\ queue' = RemoveAt(queue, i)
  /\ nEvents' = nEvents + 1
  /\ UNCHANGED <<eventSelection, registry, nSelected, nAccepted, lastEvent,
                 cand, ret, pc, batch0>>

FillStep(w) ==
  /\ wk[w] # << >>
  /\ registry' = Fill(registry, Head(wk[w]).name, Head(wk[w]).x)
  /\ wk' = [wk EXCEPT ![w] = Tail(@)]
  /\ UNCHANGED <<eventSelection, nEvents, nSelected, nAccepted, lastEvent,
                 cand, ret, pc, batch0, queue>>

NextPar ==
  \/ \E w \in Workers, i \in 1..MaxBatch : Take(w, i)
  \/ \E w \in Workers : FillStep(w)

SpecPar == InitPar /\ [][NextPar]_vars

\* the registry after process() is called for the events of batch in order
RECURSIVE SequentialResult(_, _)
SequentialResult(reg, batch) ==
  IF batch = << >> THEN reg
  ELSE SequentialResult(
         ApplyFills(reg, ProcessFills(Head(batch).collision, Head(batch).fullV0s)),
         Tail(batch))

ParDone == queue = << >> /\ \A w \in Workers : wk[w] = << >>

(***************************************************************************)
(* Properties.                                                             *)
(***************************************************************************)
Total == BinContent(registry, "Total")
Selected == BinContent(registry, "Selected")

OtherHistNames == TestHistNames \cup SparseHistNames

HasNaN(v0) ==
  \/ v0.v0cosPA.nan
  \/ v0.yK0Short.nan
  \/ v0.posTrack.tpcNSigmaPi.nan
  \/ v0.negTrack.tpcNSigmaPi.nan

\* the four conditions as the specification words them
StatedConditions(v0) ==
  /\ FGeq(v0.v0cosPA, F(v0cospa))
  /\ FLeq(TMathAbs(v0.yK0Short), F(rapidity))
  /\ v0.posTrack.hasTPC /\ v0.negTrack.hasTPC
  /\ FLeq(v0.posTrack.tpcNSigmaPi, F(nSigTPC))
  /\ FLeq(v0.negTrack.tpcNSigmaPi, F(nSigTPC))

\* C1: acceptV0 returns true if and only if the pointing-angle cosine is
\* >= v0cospa, |rapidity| <= rapidity, both daughters have a TPC hit and both
\* daughters' pion PID deviation is <= nSigTPC.
C1_AcceptIffStatedConditions ==
  pc = "done" => (ret <=> StatedConditions(cand))

\* C1, restricted to candidates whose compared fields are all numbers: there
\* the return value is exactly the four stated conditions.
C1_AcceptIffOnNumbers ==
  (pc = "done" /\ ~HasNaN(cand)) => (ret <=> StatedConditions(cand))

\* C2: the "Total" bin equals the number of events processed, the "Selected"
\* bin equals the number of events that passed the selection (at most one
\* increment per event), and Selected <= Total in every reachable state.
C2_EventCounter ==
  /\ Total = nEvents
  /\ Selected = nSelected
  /\ Selected =< Total

C2_Witness == Total >= 2 /\ Selected = 1

\* C3: with event selection enabled, a process() call on a collision whose
\* sel8 is false adds one entry to "Total" and changes nothing else: the
\* "Selected" bin, both 5D histograms and the nine Test/* histograms keep
\* their contents, whatever V0 candidates come with the collision.
C3_RejectedEventOnlyTotal ==
  [][(eventSelection /\ nEvents' = nEvents + 1 /\ ~lastEvent'.collision.sel8)
       => /\ Total' = Total + 1
          /\ Selected' = Selected
          /\ \A name \in OtherHistNames : registry'[name] = registry[name]
          /\ DOMAIN registry' = DOMAIN registry]_vars

C3_Witness ==
  /\ eventSelection
  /\ nEvents > 0
  /\ ~lastEvent.collision.sel8
  /\ NumAccepted(lastEvent.fullV0s, lastEvent.collision) > 0
  /\ Total = nEvents

\* the coordinates process() records for an accepted candidate
ITSTuple(v0) ==
  <<v0.v0radius, v0.pt, v0.mK0Short,
    BoolToDouble(v0.negTrack.hasITS), BoolToDouble(v0.negTrack.hasITS)>>

Popcount3(clusterMap) ==
  LET m == clusterMap % 8 IN (m % 2) + ((m \div 2) % 2) + (m \div 4)

IBTuple(v0) ==
  <<v0.v0radius, v0.pt, v0.mK0Short,
    BoolToDouble(Popcount3(v0.negTrack.itsClusterMap) > 0),
    BoolToDouble(Popcount3(v0.posTrack.itsClusterMap) > 0)>>

AcceptedOf(S) ==
  {v0 \in S : acceptV0(v0, v0.posTrack, v0.negTrack, [sel8 |-> TRUE])}

\* C4: the number of entries of h5_RpTmassITSStatus, of h5_RpTmassIBStatus
\* and of each Test/* histogram equals the number of V0 candidates that
\* passed acceptV0 within selected events; every entry of a 5D histogram is
\* the (radius, pT, mass, negative status, positive status) of an accepted
\* candidate, so a rejected candidate contributes no fill.
C4_OneFillPerAcceptedV0 ==
  /\ \A name \in OtherHistNames : Entries(registry, name) = nAccepted
  /\ \A e \in BagToSet(registry["h5_RpTmassITSStatus"].entries) :
       \E v0 \in AcceptedOf(SomeV0s) : e = ITSTuple(v0)
  /\ \A e \in BagToSet(registry["h5_RpTmassIBStatus"].entries) :
       \E v0 \in AcceptedOf(SomeV0s) : e = IBTuple(v0)

C4_Witness ==
  /\ nAccepted >= 2
  /\ lastEvent.collision.sel8
  /\ Len(lastEvent.fullV0s) >= 2
  /\ NumAccepted(lastEvent.fullV0s, lastEvent.collision) = 1
  /\ Entries(registry, "h5_RpTmassIBStatus") = nAccepted

OnlyEntry(name, x) == registry[name].entries = SetToBag({x})

\* C5: for each daughter of an accepted V0 the recorded inner-barrel hit
\* count is the number of set bits among bits 0, 1 and 2 of that daughter's
\* own ITS cluster map, lies in 0..3, and the recorded inner-barrel status
\* is 1 exactly when the count is > 0.
C5_InnerBarrelHits ==
  (pc = "done" /\ ret) =>
    LET n == Popcount3(cand.negTrack.itsClusterMap)
        p == Popcount3(cand.posTrack.itsClusterMap)
    IN /\ n \in 0..3 /\ p \in 0..3
       /\ OnlyEntry("Test/h_negIBhits", <<n>>)
       /\ OnlyEntry("Test/h_posIBhits", <<p>>)
       /\ OnlyEntry("Test/h_negIBStatus", <<BoolToDouble(n > 0)>>)
       /\ OnlyEntry("Test/h_posIBStatus", <<BoolToDouble(p > 0)>>)

C5_Witness ==
  /\ pc = "done" /\ ret
  /\ cand.negTrack.itsClusterMap = 3
  /\ cand.posTrack.itsClusterMap = 8
  /\ OnlyEntry("Test/h_negIBhits", <<2>>)
  /\ OnlyEntry("Test/h_negIBStatus", <<1>>)
  /\ OnlyEntry("Test/h_posIBhits", <<0>>)
  /\ OnlyEntry("Test/h_posIBStatus", <<0>>)

FlipPosHasITS(v0) ==
  [v0 EXCEPT !.posTrack.hasITS = ~v0.posTrack.hasITS]

\* C6: for every accepted V0 the negative and the positive ITS status
\* recorded (Test/h_negITSStatus, Test/h_posITSStatus, 4th and 5th
\* coordinate of h5_RpTmassITSStatus) both equal the negative track's hasITS;
\* the positive track's hasITS changes no output.
C6_PosITSStatusFromNegTrack ==
  (pc = "done" /\ ret) =>
    LET s == BoolToDouble(cand.negTrack.hasITS) IN
    /\ OnlyEntry("Test/h_negITSStatus", <<s>>)
    /\ OnlyEntry("Test/h_posITSStatus", <<s>>)
    /\ \A e \in BagToSet(registry["h5_RpTmassITSStatus"].entries) :
         e[4] = s /\ e[5] = s
    /\ Entries(registry, "h5_RpTmassITSStatus") = 1
    /\ registry = ApplyFills(init, ProcessFills([sel8 |-> TRUE],
                                                <<FlipPosHasITS(cand)>>))

C6_Witness ==
  /\ pc = "done" /\ ret
  /\ cand.posTrack.hasITS
  /\ ~cand.negTrack.hasITS
  /\ OnlyEntry("Test/h_posITSStatus", <<0>>)

\* C7: whenever a field acceptV0 reads has no valid value, acceptV0 returns
\* false and the candidate is not recorded.
C7_FailClosed ==
  (pc = "done" /\ HasNaN(cand)) =>
    /\ ~ret
    /\ \A name \in OtherHistNames : Entries(registry, name) = 0

\* C8: once every event of the batch is processed, the contents of every
\* histogram are those of processing the batch sequentially in its order,
\* whatever order the workers took the events in and however their fills
\* interleaved.
C8_OrderIndependent ==
  ParDone => registry = SequentialResult(init, batch0)

C8_Witness ==
  /\ ParDone
  /\ Len(batch0) >= 2
  /\ batch0[1] # batch0[2]
  /\ Entries(registry, "h5_RpTmassITSStatus") >= 1
  /\ Total = Len(batch0)

HistNamesOfDim(reg, dim) == {name \in DOMAIN reg : reg[name].dim = dim}

FillsTargetRegistry ==
  LET fills == ProcessFills(lastEvent.collision, lastEvent.fullV0s)
  IN nEvents > 0 => \A i \in 1..Len(fills) : fills[i].name \in DOMAIN init

\* C9 as stated: the registry holds exactly 9 one-dimensional and 2
\* five-dimensional histograms, fixed by init(), and every fill of
\* process() targets one of them.
C9_NineOneDimensional ==
  /\ DOMAIN registry = DOMAIN init
  /\ Cardinality(HistNamesOfDim(registry, 1)) = 9
  /\ Cardinality(HistNamesOfDim(registry, 5)) = 2
  /\ FillsTargetRegistry

\* C9, amended: the registry holds exactly 10 one-dimensional histograms
\* (h_EventCounter and the nine Test/*) and 2 five-dimensional ones, 12
\* distinct names fixed by init() and never changed by process(), and every
\* fill of process() targets one of them.
C9_TenOneDimensional ==
  /\ DOMAIN registry = DOMAIN init
  /\ \A name \in DOMAIN registry : registry[name].dim = init[name].dim
  /\ HistNamesOfDim(registry, 1) = {"h_EventCounter"} \cup TestHistNames
  /\ Cardinality(HistNamesOfDim(registry, 1)) = 10
  /\ HistNamesOfDim(registry, 5) = SparseHistNames
  /\ Cardinality(HistNamesOfDim(registry, 5)) = 2
  /\ Cardinality(DOMAIN registry) = 12
  /\ FillsTargetRegistry

C9_Witness ==
  /\ nEvents >= 2
  /\ nAccepted >= 1
  /\ Entries(registry, "Test/h_posIBhits") >= 1
  /\ Cardinality(DOMAIN registry) = 12

\* C10: with eventSelection false sel8 is ignored: every event increments
\* "Total" and "Selected", and the accepted V0s of a collision whose sel8 is
\* false are recorded.
C10_SelectionOff ==
  ~eventSelection =>
    /\ Selected = Total
    /\ Total = nEvents
    /\ Entries(registry, "h5_RpTmassITSStatus") = nAccepted
    /\ (nEvents > 0 /\ ~lastEvent.collision.sel8) =>
         Entries(registry, "h5_RpTmassITSStatus")
           >= NumAccepted(lastEvent.fullV0s, lastEvent.collision)

C10_Witness ==
  /\ ~eventSelection
  /\ nEvents > 0
  /\ ~lastEvent.collision.sel8
  /\ NumAccepted(lastEvent.fullV0s, lastEvent.collision) > 0
  /\ Selected = nEvents
  /\ Entries(registry, "h5_RpTmassITSStatus") > 0

====
